---- MODULE Spec2Model ----
(***************************************************************************)
(* The custom Clerk signup flows of this repository:                       *)
(*   - SignupEmailUsernamePassword with its hook useClerkSignupWithEmail   *)
(*     (email + username + password form, verification form, retry);       *)
(*   - Signup with its hook useClerkSignup (src/routes/sign-up.tsx).       *)
(* The Clerk SDK (signUp.create, prepareEmailAddressVerification,          *)
(* attemptEmailAddressVerification, setActive) is the environment: every   *)
(* call is a promise that the environment settles, fulfilled or rejected,  *)
(* in a later step, or never.                                              *)
(*                                                                         *)
(* Spec       : SignupEmailUsernamePassword driven by its user and Clerk   *)
(* SignupSpec : Signup (sign-up.tsx) driven by its user and Clerk          *)
(* HookSpec   : useClerkSignupWithEmail called directly by a client        *)
(*                                                                         *)
(* Strings that the code inspects character by character (passwords,       *)
(* e-mail addresses, usernames, verification codes) are sequences of       *)
(* one-character strings; messages that are only stored are strings.       *)
(***************************************************************************)
EXTENDS Integers, Sequences, FiniteSets, Bags

VARIABLES
    isLoaded,     \* useSignUp().isLoaded
    signUp,       \* TRUE iff useSignUp().signUp is present
    state,        \* SIGNUP_STATE of the component
    error,        \* the error text of SignupEmailUsernamePassword (or Null)
    isCreating,   \* in-flight flag of useClerkSignupWithEmail.signup
    isVerifying,  \* in-flight flag of useClerkSignupWithEmail.verify
    signupForm,   \* [values, isValid] of the signup form (react-hook-form)
    verifyForm,   \* [values] of the verification form
    inflight,     \* bag of suspended signup/verify activations (one awaited call each)
    result,       \* what signup/verify last returned to its caller
    hookState,    \* the state of useClerkSignup (sign-up.tsx)
    err           \* the err of Signup (sign-up.tsx)

vars == <<isLoaded, signUp, state, error, isCreating, isVerifying,
          signupForm, verifyForm, inflight, result, hookState, err>>

-----------------------------------------------------------------------------
(* JavaScript values *)

\* undefined: an absent property, an untouched input, a function that returns nothing
Undefined == "<undefined>"

\* null
Null == "<null>"

\* JavaScript truthiness of a string-or-undefined value
Truthy(v) == v # Undefined /\ v # Null /\ v # ""

\* a || b
Or(a, b) == IF Truthy(a) THEN a ELSE b

-----------------------------------------------------------------------------
(* Characters *)

Lowercase == {"a", "b", "c", "e", "g", "i", "l", "m", "n", "o", "p", "r", "s", "t", "x"}
Uppercase == {"A", "B", "U"}
Number    == {"0", "1", "2", "3", "4", "5", "6", "7"}

\* the class of /[!@#$%^&*(),.?":{}|<>\-_[\]]/
Special == {"!", "@", "#", "$", "%", "^", "&", "*", "(", ")", ",", ".", "?",
            "\"", ":", "{", "}", "|", "<", ">", "-", "_", "[", "]"}

Contains(s, class) == \E i \in 1..Len(s) : s[i] \in class

-----------------------------------------------------------------------------
(* The schemas *)

\* z.string().length(6)
CodeLength == 6

\* faulty variant of verificationSchema: min(6) in place of length(6)
verificationSchemaMin(values) ==
    /\ "code" \in DOMAIN values
    /\ Len(values.code) >= CodeLength

\* an untouched input leaves values without the code property, which z.string() rejects
verificationSchema(values) ==
    /\ "code" \in DOMAIN values
    /\ Len(values.code) = CodeLength

PasswordMin == 8
PasswordMax == 12

\* faulty variant of charLength: the upper limit one too high
charLengthLoose(s) == Len(s) >= PasswordMin /\ Len(s) <= PasswordMax + 1

charLength(s)   == Len(s) >= PasswordMin /\ Len(s) <= PasswordMax
oneLowercase(s) == Contains(s, Lowercase)
oneUppercase(s) == Contains(s, Uppercase)
oneNumber(s)    == Contains(s, Number)
oneSpecial(s)   == Contains(s, Special)

\* the pipe of the five requirement schemas: the first that fails fails the pipe
passwordSchema(s) ==
    /\ charLength(s)
    /\ oneLowercase(s)
    /\ oneUppercase(s)
    /\ oneNumber(s)
    /\ oneSpecial(s)

UsernameMin == 4

usernameSchema(s) == Len(s) >= UsernameMin

\* z.string().email(): zod's address pattern
\*   ^(?!\.)(?!.*\.\.)([A-Z0-9_'+\-\.]*)[A-Z0-9_+-]@([A-Z0-9][A-Z0-9\-]*\.)+[A-Z]{2,}$   (case-insensitive)
Letter   == Lowercase \cup Uppercase
AlphaNum == Letter \cup Number
LocalChar == AlphaNum \cup {"_", "'", "+", "-", "."}
LocalLast == AlphaNum \cup {"_", "+", "-"}

\* the positions of c in s
Positions(s, c) == {i \in 1..Len(s) : s[i] = c}

\* domain part: one or more labels [A-Z0-9][A-Z0-9-]* each followed by ".", then [A-Z]{2,}
DomainOk(d) ==
    LET dots == Positions(d, ".")
        starts == {1} \cup {i + 1 : i \in dots}
        lastDot == IF dots = {} THEN 0 ELSE CHOOSE i \in dots : \A j \in dots : j <= i
    IN  /\ dots # {}
        /\ \A i \in 1..Len(d) : d[i] \in AlphaNum \cup {"-", "."}
        /\ \A i \in starts : i <= Len(d) /\ d[i] \in AlphaNum
        /\ Len(d) - lastDot >= 2
        /\ \A i \in (lastDot + 1)..Len(d) : d[i] \in Letter

emailSchema(s) ==
    LET ats == Positions(s, "@")
    IN  /\ Cardinality(ats) = 1
        /\ LET at == CHOOSE i \in ats : TRUE
               local == SubSeq(s, 1, at - 1)
               domain == SubSeq(s, at + 1, Len(s))
           IN  /\ Len(local) >= 1
               /\ local[1] # "."
               /\ \A i \in 1..(Len(s) - 1) : ~(s[i] = "." /\ s[i + 1] = ".")
               /\ \A i \in 1..Len(local) : local[i] \in LocalChar
               /\ local[Len(local)] \in LocalLast
               /\ DomainOk(domain)

\* the two refinements shared by formSchemaWithEmail and formSchema;
\* z.boolean() rejects an absent tos
passwordsMatch(data) == data.password = data.confirmPassword
tosAccepted(data) == "tos" \in DOMAIN data /\ data.tos

\* faulty variant of formSchemaWithEmail: the refinement on tos left out
formSchemaWithEmailNoTos(data) ==
    /\ emailSchema(data.email)
    /\ usernameSchema(data.username)
    /\ passwordSchema(data.password)
    /\ passwordsMatch(data)
    /\ "tos" \in DOMAIN data

\* part_001: the schema of SignupEmailUsernamePassword's form
formSchemaWithEmail(data) ==
    /\ emailSchema(data.email)
    /\ usernameSchema(data.username)
    /\ passwordSchema(data.password)
    /\ passwordsMatch(data)
    /\ tosAccepted(data)

\* sign-up.tsx: the schema declared next to Signup's form
formSchema(data) ==
    /\ usernameSchema(data.username)
    /\ passwordSchema(data.password)
    /\ passwordsMatch(data)
    /\ tosAccepted(data)

-----------------------------------------------------------------------------
(* Inputs: what the user can type, what generateRandomPassword can return, *)
(* what Clerk can answer                                                   *)

\* 'test@example.com', the default e-mail of useSignupFormWithEmail
DefaultEmail == <<"t", "e", "s", "t", "@", "e", "x", "a", "m", "p", "l", "e", ".", "c", "o", "m">>
\* 'test@example', no top-level domain
BadEmail == <<"t", "e", "s", "t", "@", "e", "x", "a", "m", "p", "l", "e">>
Emails == {DefaultEmail, BadEmail}

\* 'testingUser', the default username of both forms
DefaultUsername == <<"t", "e", "s", "t", "i", "n", "g", "U", "s", "e", "r">>
ShortUsername == <<"a", "b", "c">>
Usernames == {DefaultUsername, ShortUsername}

\* two results of generateRandomPassword (12 characters of its alphabet):
\* 'Ab1-Ab1$Ab1@' meets the password schema, 'Ab1~Ab1~Ab1~' has no character of
\* the special class ('~' is in the generator's alphabet and not in the class)
GeneratedStrong == <<"A", "b", "1", "-", "A", "b", "1", "$", "A", "b", "1", "@">>
GeneratedWeak == <<"A", "b", "1", "~", "A", "b", "1", "~", "A", "b", "1", "~">>
generateRandomPassword == {GeneratedStrong, GeneratedWeak}

\* 'aB3!', too short
ShortPassword == <<"a", "B", "3", "!">>
Passwords == generateRandomPassword \cup {ShortPassword}

\* verification codes: 5, 6, 6 and 7 characters
Codes == { <<"1", "2", "3", "4", "5">>,
           <<"1", "2", "3", "4", "5", "6">>,
           <<"a", "b", "!", " ", "e", "x">>,
           <<"1", "2", "3", "4", "5", "6", "7">> }

\* SignUpResource.status
Statuses == {"complete", "missing_requirements", "abandoned"}
SessionIds == {"sess_1", "sess_2"}

\* what a rejected call carries: err.errors (the longMessage of each entry,
\* Undefined where the entry has none) and err.message
LongMessage1 == "Password has been found in an online data breach."
LongMessage2 == "Username is already taken."
Message == "Unprocessable Entity"
Errs == { [errors |-> <<LongMessage1, LongMessage2>>, message |-> Message],
          [errors |-> <<LongMessage1>>, message |-> Undefined],
          [errors |-> <<Undefined, LongMessage2>>, message |-> Message],
          [errors |-> <<"">>, message |-> Message],
          [errors |-> <<>>, message |-> Message],
          [errors |-> <<>>, message |-> Undefined],
          [errors |-> <<"">>, message |-> ""],
          [errors |-> <<Undefined, LongMessage2>>, message |-> Undefined] }

NoErr == [errors |-> <<>>, message |-> Undefined]

\* a promise: not settled, fulfilled with a SignUpResource (or with nothing,
\* status Undefined), or rejected with an err
Pending == [kind |-> "pending", status |-> Undefined, createdSessionId |-> Null, err |-> NoErr]
Fulfilled(status, session) ==
    [kind |-> "fulfilled", status |-> status, createdSessionId |-> session, err |-> NoErr]
Rejected(e) == [kind |-> "rejected", status |-> Undefined, createdSessionId |-> Null, err |-> e]

\* the SignUpResource a fulfilled create / prepare / attempt call returns
Resources ==
    {Fulfilled("complete", id) : id \in SessionIds}
        \cup {Fulfilled(s, Null) : s \in Statuses \ {"complete"}}

\* the ways Clerk can settle a call
Settlements(op) ==
    (IF op = "setActive" THEN {Fulfilled(Undefined, Null)} ELSE Resources)
        \cup {Rejected(e) : e \in Errs}

-----------------------------------------------------------------------------
(* Activations: a call of signup or verify suspended at an await *)

NoData == [none |-> TRUE]
NoResult == [status |-> Undefined, createdSessionId |-> Null]

\* a new activation of fn, awaiting its first Clerk call
Activation(fn, op, data, code) ==
    [fn |-> fn, awaiting |-> op, data |-> data, code |-> code,
     result |-> NoResult, session |-> Null, settled |-> Pending]

\* faulty variant of Await: setActive called with a fixed session id
AwaitFixedSession(a, op) ==
    [a EXCEPT !.awaiting = op,
              !.result = [status |-> a.settled.status,
                          createdSessionId |-> a.settled.createdSessionId],
              !.session = IF op = "setActive" THEN "sess_1" ELSE Null,
              !.settled = Pending]

\* the activation after `const result = await ...` and the next Clerk call;
\* setActive is called with { session: result.createdSessionId }
Await(a, op) ==
    [a EXCEPT !.awaiting = op,
              !.result = [status |-> a.settled.status,
                          createdSessionId |-> a.settled.createdSessionId],
              !.session = IF op = "setActive" THEN a.settled.createdSessionId ELSE Null,
              !.settled = Pending]

\* bound on the activations suspended at once
MaxInFlight == 2

InFlight == BagToSet(inflight)
NumInFlight == BagCardinality(inflight)
Add(a) == inflight (+) SetToBag({a})
Remove(a) == inflight (-) SetToBag({a})

-----------------------------------------------------------------------------
(* useClerkSignupWithEmail (part_001) *)

\* faulty variant of NotLoaded: the guard left out
NotLoadedNoGuard == FALSE

\* !isLoaded || !signUp
NotLoaded == ~isLoaded \/ ~signUp

ClerkNotLoaded == [success |-> FALSE, error |-> "Clerk not loaded"]

\* err?.errors?.[0]?.longMessage
FirstLongMessage(e) == IF Len(e.errors) >= 1 THEN e.errors[1] ELSE Undefined

\* faulty variants of ErrorText: the fixed fallback dropped; err.message tried first
ErrorTextNoFallback(e, fallback) == Or(FirstLongMessage(e), e.message)
ErrorTextMessageFirst(e, fallback) == Or(Or(e.message, FirstLongMessage(e)), fallback)

\* err?.errors?.[0]?.longMessage || err?.message || fallback
ErrorText(e, fallback) == Or(Or(FirstLongMessage(e), e.message), fallback)

\* signup(data), up to its first await or its early return
signup(data) ==
    IF NotLoaded
    THEN /\ result' = ClerkNotLoaded
         /\ UNCHANGED <<isCreating, inflight>>
    ELSE /\ isCreating' = TRUE
         /\ inflight' = Add(Activation("signup", "create", data, <<>>))
         /\ UNCHANGED result

\* faulty variants of signupNext: an unexpected status handled like
\* missing_requirements; a rejected create call made again
signupNextAnyStatus(a) ==
    IF a.awaiting = "create" /\ a.settled.kind = "fulfilled"
    THEN IF a.settled.status = "complete" THEN "setActive" ELSE "prepare"
    ELSE "return"
signupNextRetry(a) ==
    IF a.awaiting = "create"
    THEN CASE a.settled.kind = "rejected" -> "create"
           [] a.settled.status = "missing_requirements" -> "prepare"
           [] a.settled.status = "complete" -> "setActive"
           [] OTHER -> "return"
    ELSE "return"

\* faulty variant of signupNext: no prepare call after missing_requirements
signupNextSkipPrepare(a) ==
    IF a.awaiting = "create" /\ a.settled.kind = "fulfilled" /\ a.settled.status = "complete"
    THEN "setActive"
    ELSE "return"

\* signup after an await: the Clerk call it makes next, or "return"
signupNext(a) ==
    IF a.awaiting = "create" /\ a.settled.kind = "fulfilled"
    THEN CASE a.settled.status = "missing_requirements" -> "prepare"
           [] a.settled.status = "complete" -> "setActive"
           [] OTHER -> "return"
    ELSE "return"

\* what signup returns when it returns after the await of a
signupResult(a) ==
    IF a.settled.kind = "rejected"
    THEN [success |-> FALSE, error |-> ErrorText(a.settled.err, "Signup failed")]
    ELSE CASE a.awaiting = "prepare" -> [success |-> TRUE, requiresVerification |-> TRUE]
           [] a.awaiting = "setActive" -> [success |-> TRUE, requiresVerification |-> FALSE]
           [] OTHER -> [success |-> FALSE, error |-> "Unexpected signup status"]

\* faulty variant of signupResume: the flag cleared at the returns of the try block
\* only, not in finally
signupResumeNoFinally(a) ==
    IF signupNext(a) = "return"
    THEN /\ result' = signupResult(a)
         /\ isCreating' = (a.settled.kind = "rejected")
         /\ inflight' = Remove(a)
    ELSE /\ inflight' = Remove(a) (+) SetToBag({Await(a, signupNext(a))})
         /\ UNCHANGED <<result, isCreating>>

\* signup from the await of a to its next await, or to its return through finally
signupResume(a) ==
    IF signupNext(a) = "return"
    THEN /\ result' = signupResult(a)
         /\ isCreating' = FALSE
         /\ inflight' = Remove(a)
    ELSE /\ inflight' = Remove(a) (+) SetToBag({Await(a, signupNext(a))})
         /\ UNCHANGED <<result, isCreating>>

\* faulty variant of verify: the in-flight flag never set
verifyNoFlag(code) ==
    IF NotLoaded
    THEN /\ result' = ClerkNotLoaded
         /\ UNCHANGED <<isVerifying, inflight>>
    ELSE /\ inflight' = Add(Activation("verify", "attempt", NoData, code))
         /\ UNCHANGED <<result, isVerifying>>

\* verify(code), up to its first await or its early return
verify(code) ==
    IF NotLoaded
    THEN /\ result' = ClerkNotLoaded
         /\ UNCHANGED <<isVerifying, inflight>>
    ELSE /\ isVerifying' = TRUE
         /\ inflight' = Add(Activation("verify", "attempt", NoData, code))
         /\ UNCHANGED result

verifyNext(a) ==
    IF a.awaiting = "attempt" /\ a.settled.kind = "fulfilled" /\ a.settled.status = "complete"
    THEN "setActive"
    ELSE "return"

verifyResult(a) ==
    IF a.settled.kind = "rejected"
    THEN [success |-> FALSE, error |-> ErrorText(a.settled.err, "Verification failed")]
    ELSE IF a.awaiting = "setActive"
         THEN [success |-> TRUE]
         ELSE [success |-> FALSE, error |-> "Verification failed"]

\* faulty variant of verifyResume: the flag cleared at the returns of the try block
\* only, not in finally
verifyResumeNoFinally(a) ==
    IF verifyNext(a) = "return"
    THEN /\ result' = verifyResult(a)
         /\ isVerifying' = (a.settled.kind = "rejected")
         /\ inflight' = Remove(a)
    ELSE /\ inflight' = Remove(a) (+) SetToBag({Await(a, verifyNext(a))})
         /\ UNCHANGED <<result, isVerifying>>

\* verify from the await of a to its next await, or to its return through finally
verifyResume(a) ==
    IF verifyNext(a) = "return"
    THEN /\ result' = verifyResult(a)
         /\ isVerifying' = FALSE
         /\ inflight' = Remove(a)
    ELSE /\ inflight' = Remove(a) (+) SetToBag({Await(a, verifyNext(a))})
         /\ UNCHANGED <<result, isVerifying>>

-----------------------------------------------------------------------------
(* SignupEmailUsernamePassword (part_001) *)

\* what the component renders
View ==
    IF ~isLoaded THEN "Loading Clerk..."
    ELSE IF state \in {"READY", "VERIFY_EMAIL", "DONE", "ERROR"} THEN state
    ELSE "Loading..."

\* faulty variant of signupSubmitDisabled: the in-flight flag left out
signupSubmitDisabledNoFlag == ~signupForm.isValid

\* disabled={!signupForm.formState.isValid || isCreating}
signupSubmitDisabled == ~signupForm.isValid \/ isCreating

\* faulty variant of verifySubmitDisabled: never disabled
verifySubmitNeverDisabled == FALSE

\* disabled={isVerifying}
verifySubmitDisabled == isVerifying

\* faulty variant of onSignupThen: the two success branches exchanged
onSignupThenSwapped ==
    IF result'.success
    THEN /\ state' = IF result'.requiresVerification THEN "DONE" ELSE "VERIFY_EMAIL"
         /\ UNCHANGED error
    ELSE /\ error' = result'.error
         /\ state' = "ERROR"

\* onSignup after `await signup(data)`
onSignupThen ==
    IF result'.success
    THEN /\ state' = IF result'.requiresVerification THEN "VERIFY_EMAIL" ELSE "DONE"
         /\ UNCHANGED error
    ELSE /\ error' = result'.error
         /\ state' = "ERROR"

\* faulty variant of onVerificationThen: setError left out of the failure branch
onVerificationThenNoError ==
    /\ state' = IF result'.success THEN "DONE" ELSE "ERROR"
    /\ UNCHANGED error

\* onVerification after `await verify(data.code)`
onVerificationThen ==
    IF result'.success
    THEN /\ state' = "DONE"
         /\ UNCHANGED error
    ELSE /\ error' = result'.error
         /\ state' = "ERROR"

\* useSignUp() reports the loaded SDK
ClerkLoads ==
    /\ ~isLoaded
    /\ isLoaded' = TRUE
    /\ signUp' = TRUE
    /\ UNCHANGED <<state, error, isCreating, isVerifying, signupForm, verifyForm,
                   inflight, result, hookState, err>>

\* the user changes one field of the signup form; the resolver revalidates
ChangeSignupField ==
    /\ View = "READY"
    /\ \E f \in {"email", "username", "password", "confirmPassword", "tos"} :
         \E v \in CASE f = "email" -> Emails
                    [] f = "username" -> Usernames
                    [] f = "tos" -> BOOLEAN
                    [] OTHER -> Passwords :
            LET values == [signupForm.values EXCEPT ![f] = v]
            IN  /\ values # signupForm.values
                /\ signupForm' = [values |-> values, isValid |-> formSchemaWithEmail(values)]
    /\ UNCHANGED <<isLoaded, signUp, state, error, isCreating, isVerifying, verifyForm,
                   inflight, result, hookState, err>>

\* the user types a verification code
ChangeCode ==
    /\ View = "VERIFY_EMAIL"
    /\ \E c \in Codes :
         /\ verifyForm.values # [code |-> c]
         /\ verifyForm' = [values |-> [code |-> c]]
    /\ UNCHANGED <<isLoaded, signUp, state, error, isCreating, isVerifying, signupForm,
                   inflight, result, hookState, err>>

\* signupForm.handleSubmit(onSignup): the submit control is enabled, the resolver
\* accepts the values, onSignup runs to the first await of signup
SubmitSignup ==
    /\ View = "READY"
    /\ ~signupSubmitDisabled
    /\ formSchemaWithEmail(signupForm.values)
    /\ NumInFlight < MaxInFlight
    /\ signup(signupForm.values)
    /\ IF NotLoaded
       THEN onSignupThen
       ELSE error' = Null /\ UNCHANGED state
    /\ UNCHANGED <<isLoaded, signUp, isVerifying, signupForm, verifyForm, hookState, err>>

\* verifyForm.handleSubmit(onVerification)
SubmitVerification ==
    /\ View = "VERIFY_EMAIL"
    /\ ~verifySubmitDisabled
    /\ verificationSchema(verifyForm.values)
    /\ NumInFlight < MaxInFlight
    /\ verify(verifyForm.values.code)
    /\ IF NotLoaded
       THEN onVerificationThen
       ELSE error' = Null /\ UNCHANGED state
    /\ UNCHANGED <<isLoaded, signUp, isCreating, signupForm, verifyForm, hookState, err>>

\* Clerk settles an awaited call
ClerkSettles ==
    \E a \in InFlight :
        /\ a.settled.kind = "pending"
        /\ \E o \in Settlements(a.awaiting) :
             inflight' = Remove(a) (+) SetToBag({[a EXCEPT !.settled = o]})
        /\ UNCHANGED <<isLoaded, signUp, state, error, isCreating, isVerifying,
                       signupForm, verifyForm, result, hookState, err>>

\* signup resumes after a settled await; when it returns, onSignup continues
ResumeSignup ==
    \E a \in InFlight :
        /\ a.fn = "signup"
        /\ a.settled.kind # "pending"
        /\ signupResume(a)
        /\ IF signupNext(a) = "return"
           THEN onSignupThen
           ELSE UNCHANGED <<state, error>>
        /\ UNCHANGED <<isLoaded, signUp, isVerifying, signupForm, verifyForm, hookState, err>>

\* verify resumes after a settled await; when it returns, onVerification continues
ResumeVerify ==
    \E a \in InFlight :
        /\ a.fn = "verify"
        /\ a.settled.kind # "pending"
        /\ verifyResume(a)
        /\ IF verifyNext(a) = "return"
           THEN onVerificationThen
           ELSE UNCHANGED <<state, error>>
        /\ UNCHANGED <<isLoaded, signUp, isCreating, signupForm, verifyForm, hookState, err>>

\* faulty variant of TryAgain: the error text kept
TryAgainKeepsError ==
    /\ View = "ERROR"
    /\ state' = "READY"
    /\ UNCHANGED <<isLoaded, signUp, error, isCreating, isVerifying, signupForm, verifyForm,
                   inflight, result, hookState, err>>

\* the Try Again button of the ERROR view
TryAgain ==
    /\ View = "ERROR"
    /\ state' = "READY"
    /\ error' = Null
    /\ UNCHANGED <<isLoaded, signUp, isCreating, isVerifying, signupForm, verifyForm,
                   inflight, result, hookState, err>>

\* the component after its first render
Init ==
    /\ isLoaded = FALSE
    /\ signUp = FALSE
    /\ state = "READY"
    /\ error = Null
    /\ isCreating = FALSE
    /\ isVerifying = FALSE
    /\ \E pwd \in generateRandomPassword :
         LET values == [email |-> DefaultEmail, username |-> DefaultUsername,
                        password |-> pwd, confirmPassword |-> pwd, tos |-> FALSE]
         IN  signupForm = [values |-> values, isValid |-> formSchemaWithEmail(values)]
    /\ verifyForm = [values |-> [k \in {} |-> Undefined]]
    /\ inflight = EmptyBag
    /\ result = [k \in {} |-> Undefined]
    /\ hookState = "idle"
    /\ err = Undefined

Next ==
    \/ ClerkLoads
    \/ ChangeSignupField
    \/ ChangeCode
    \/ SubmitSignup
    \/ SubmitVerification
    \/ ClerkSettles
    \/ ResumeSignup
    \/ ResumeVerify
    \/ TryAgain

Spec == Init /\ [][Next]_vars

\* the component when every awaited Clerk call settles, and every settled await
\* resumes (the continuation of an await is a microtask: it always runs)
FairSpec ==
    /\ Init
    /\ [][Next]_vars
    /\ WF_vars(ClerkSettles)
    /\ WF_vars(ResumeSignup)
    /\ WF_vars(ResumeVerify)

-----------------------------------------------------------------------------
(* useClerkSignup (src/routes/sign-up.tsx) *)

\* signup(data, email), up to its first await or its early return
useClerkSignup_signup(data) ==
    IF ~isLoaded
    THEN /\ result' = Undefined
         /\ UNCHANGED <<hookState, inflight>>
    ELSE /\ hookState' = "loading"
         /\ inflight' = Add(Activation("signup", "create", data, <<>>))
         /\ UNCHANGED result

\* after `await signUp.create(...)` comes prepareEmailAddressVerification, whatever
\* the status; after that, or after a rejection, signup returns
useClerkSignup_signupNext(a) ==
    IF a.awaiting = "create" /\ a.settled.kind = "fulfilled" THEN "prepare" ELSE "return"

useClerkSignup_signupResume(a) ==
    IF useClerkSignup_signupNext(a) = "return"
    THEN /\ IF a.settled.kind = "rejected"
            THEN hookState' = "error" /\ result' = Undefined
            ELSE hookState' = "verify" /\ result' = a.settled.status
         /\ inflight' = Remove(a)
    ELSE /\ inflight' = Remove(a) (+) SetToBag({Await(a, "prepare")})
         /\ UNCHANGED <<result, hookState>>

\* verify(code), up to its await or its early return
useClerkSignup_verify(code) ==
    IF ~isLoaded
    THEN /\ result' = Undefined
         /\ UNCHANGED inflight
    ELSE /\ inflight' = Add(Activation("verify", "attempt", NoData, code))
         /\ UNCHANGED result

useClerkSignup_verifyResume(a) ==
    /\ IF a.settled.kind = "rejected"
       THEN hookState' = "error" /\ result' = Undefined
       ELSE result' = a.settled.status /\ UNCHANGED hookState
    /\ inflight' = Remove(a)

-----------------------------------------------------------------------------
(* Signup (src/routes/sign-up.tsx) *)

Signup_View ==
    IF state \in {"READY", "VERIFY_EMAIL", "DONE", "ERROR"} THEN state ELSE "Loading..."

\* useSignupForm passes no resolver to useForm: every value set is accepted
useSignupForm_resolver(values) == TRUE

\* what the user types into Signup's forms, and how Clerk settles a call (neither
\* createdSessionId nor err is ever read)
Signup_Passwords == generateRandomPassword
Signup_Codes == { <<"1", "2", "3", "4", "5">>, <<"1", "2", "3", "4", "5", "6">> }
Signup_Settlements ==
    {Fulfilled("complete", "sess_1")}
        \cup {Fulfilled(s, Null) : s \in Statuses \ {"complete"}}
        \cup {Rejected(NoErr)}

\* onSignup after `await signup(data, email)`
Signup_onSignupThen ==
    IF result' = "complete"
    THEN /\ state' = "VERIFY_EMAIL"
         /\ UNCHANGED err
    ELSE /\ err' = result'
         /\ state' = "ERROR"

\* onVerification after `await verify(data.code)`
Signup_onVerificationThen ==
    /\ state' = IF result' = "complete" THEN "DONE" ELSE "ERROR"
    /\ UNCHANGED err

Signup_ClerkLoads ==
    /\ ~isLoaded
    /\ isLoaded' = TRUE
    /\ signUp' = TRUE
    /\ UNCHANGED <<state, error, isCreating, isVerifying, signupForm, verifyForm,
                   inflight, result, hookState, err>>

\* the user changes one of the three registered inputs
Signup_ChangeSignupField ==
    /\ Signup_View = "READY"
    /\ \E f \in {"username", "password", "confirmPassword"} :
         \E v \in IF f = "username" THEN Usernames ELSE Signup_Passwords :
            LET values == [signupForm.values EXCEPT ![f] = v]
            IN  /\ values # signupForm.values
                /\ signupForm' = [values |-> values, isValid |-> useSignupForm_resolver(values)]
    /\ UNCHANGED <<isLoaded, signUp, state, error, isCreating, isVerifying, verifyForm,
                   inflight, result, hookState, err>>

Signup_ChangeCode ==
    /\ Signup_View = "VERIFY_EMAIL"
    /\ \E c \in Signup_Codes :
         /\ verifyForm.values # [code |-> c]
         /\ verifyForm' = [values |-> [code |-> c]]
    /\ UNCHANGED <<isLoaded, signUp, state, error, isCreating, isVerifying, signupForm,
                   inflight, result, hookState, err>>

\* bound on the activations of Signup suspended at once
Signup_MaxInFlight == 2

\* signupForm.handleSubmit(onSignup): the button is never disabled
Signup_SubmitSignup ==
    /\ Signup_View = "READY"
    /\ useSignupForm_resolver(signupForm.values)
    /\ NumInFlight < Signup_MaxInFlight
    /\ useClerkSignup_signup(signupForm.values)
    /\ IF ~isLoaded
       THEN Signup_onSignupThen
       ELSE UNCHANGED <<state, err>>
    /\ UNCHANGED <<isLoaded, signUp, error, isCreating, isVerifying, signupForm, verifyForm>>

\* verifyForm.handleSubmit(onVerification): the button is never disabled
Signup_SubmitVerification ==
    /\ Signup_View = "VERIFY_EMAIL"
    /\ verificationSchema(verifyForm.values)
    /\ NumInFlight < Signup_MaxInFlight
    /\ useClerkSignup_verify(verifyForm.values.code)
    /\ IF ~isLoaded
       THEN Signup_onVerificationThen
       ELSE UNCHANGED <<state, err>>
    /\ UNCHANGED <<isLoaded, signUp, error, isCreating, isVerifying, signupForm, verifyForm,
                   hookState>>

Signup_ClerkSettles ==
    \E a \in InFlight :
        /\ a.settled.kind = "pending"
        /\ \E o \in Signup_Settlements :
             inflight' = Remove(a) (+) SetToBag({[a EXCEPT !.settled = o]})
        /\ UNCHANGED <<isLoaded, signUp, state, error, isCreating, isVerifying,
                       signupForm, verifyForm, result, hookState, err>>

Signup_ResumeSignup ==
    \E a \in InFlight :
        /\ a.fn = "signup"
        /\ a.settled.kind # "pending"
        /\ useClerkSignup_signupResume(a)
        /\ IF useClerkSignup_signupNext(a) = "return"
           THEN Signup_onSignupThen
           ELSE UNCHANGED <<state, err>>
        /\ UNCHANGED <<isLoaded, signUp, error, isCreating, isVerifying, signupForm, verifyForm>>

Signup_ResumeVerify ==
    \E a \in InFlight :
        /\ a.fn = "verify"
        /\ a.settled.kind # "pending"
        /\ useClerkSignup_verifyResume(a)
        /\ Signup_onVerificationThen
        /\ UNCHANGED <<isLoaded, signUp, error, isCreating, isVerifying, signupForm, verifyForm>>

\* Signup after its first render
Signup_Init ==
    /\ isLoaded = FALSE
    /\ signUp = FALSE
    /\ state = "READY"
    /\ err = Undefined
    /\ hookState = "idle"
    /\ \E pwd \in generateRandomPassword :
         LET values == [username |-> DefaultUsername, password |-> pwd, confirmPassword |-> pwd]
         IN  signupForm = [values |-> values, isValid |-> useSignupForm_resolver(values)]
    /\ verifyForm = [values |-> [k \in {} |-> Undefined]]
    /\ inflight = EmptyBag
    /\ result = Undefined
    /\ error = Null
    /\ isCreating = FALSE
    /\ isVerifying = FALSE

Signup_Next ==
    \/ Signup_ClerkLoads
    \/ Signup_ChangeSignupField
    \/ Signup_ChangeCode
    \/ Signup_SubmitSignup
    \/ Signup_SubmitVerification
    \/ Signup_ClerkSettles
    \/ Signup_ResumeSignup
    \/ Signup_ResumeVerify

SignupSpec == Signup_Init /\ [][Signup_Next]_vars

-----------------------------------------------------------------------------
(* useClerkSignupWithEmail called by any client of the exported hook: no form, *)
(* no view, no validation stand between the caller and signup / verify         *)

Hook_Inputs ==
    { [email |-> DefaultEmail, username |-> DefaultUsername,
       password |-> GeneratedStrong, confirmPassword |-> GeneratedStrong, tos |-> TRUE],
      [email |-> BadEmail, username |-> ShortUsername,
       password |-> ShortPassword, confirmPassword |-> GeneratedWeak, tos |-> FALSE] }

Hook_Codes == { <<"1", "2", "3", "4", "5", "6">>, <<"1", "2", "3", "4", "5", "6", "7">> }

\* bound on the calls the client has in flight at once
Hook_MaxInFlight == 1

Hook_CallSignup ==
    /\ NumInFlight < Hook_MaxInFlight
    /\ \E data \in Hook_Inputs : signup(data)
    /\ UNCHANGED <<isLoaded, signUp, state, error, isVerifying, signupForm, verifyForm,
                   hookState, err>>

Hook_CallVerify ==
    /\ NumInFlight < Hook_MaxInFlight
    /\ \E code \in Hook_Codes : verify(code)
    /\ UNCHANGED <<isLoaded, signUp, state, error, isCreating, signupForm, verifyForm,
                   hookState, err>>

Hook_ResumeSignup ==
    \E a \in InFlight :
        /\ a.fn = "signup"
        /\ a.settled.kind # "pending"
        /\ signupResume(a)
        /\ UNCHANGED <<isLoaded, signUp, state, error, isVerifying, signupForm, verifyForm,
                       hookState, err>>

Hook_ResumeVerify ==
    \E a \in InFlight :
        /\ a.fn = "verify"
        /\ a.settled.kind # "pending"
        /\ verifyResume(a)
        /\ UNCHANGED <<isLoaded, signUp, state, error, isCreating, signupForm, verifyForm,
                       hookState, err>>

Hook_Next ==
    \/ ClerkLoads
    \/ Hook_CallSignup
    \/ Hook_CallVerify
    \/ ClerkSettles
    \/ Hook_ResumeSignup
    \/ Hook_ResumeVerify

HookSpec == Init /\ [][Hook_Next]_vars

-----------------------------------------------------------------------------
(* The schemas applied to candidate inputs: what zodResolver does with the   *)
(* values of a form, one parse per behaviour                                 *)

\* bounds on the lengths of the candidate passwords, usernames and codes
Schema_MaxPasswordLen == 13
Schema_MaxUsernameLen == 5
Schema_MaxCodeLen == 8

\* n times the character c
Rep(c, n) == [i \in 1..n |-> c]

\* candidate passwords: nl lowercase, nu uppercase, nd digits, ns times the special
\* character sp, no times '~' (in no class), in this order or with '~' first
Schema_Passwords ==
    {Rep("a", c[1]) \o Rep("B", c[2]) \o Rep("1", c[3]) \o Rep(sp, c[4]) \o Rep("~", c[5]) :
        c \in {t \in [1..5 -> 0..Schema_MaxPasswordLen] :
                  t[1] + t[2] + t[3] + t[4] + t[5] <= Schema_MaxPasswordLen},
        sp \in {"!", "-", "]"}}

\* 'aB3!aB3!', a second password that meets the schema
StrongPassword == <<"a", "B", "3", "!", "a", "B", "3", "!">>

Schema_SignupInputs ==
    [email : Emails \cup { <<"a", "@", "b", ".", "c", "o">>,
                           <<"a", "@", "b", ".", "c">>,
                           <<"a", ".", ".", "b", "@", "e", ".", "c", "o">> },
     username : {DefaultUsername} \cup {Rep("a", n) : n \in 0..Schema_MaxUsernameLen},
     password : Passwords \cup {StrongPassword},
     confirmPassword : Passwords \cup {StrongPassword, <<>>},
     tos : BOOLEAN]

\* the values of the verification form: untouched, or any code up to the bound
Schema_CodeInputs ==
    {[k \in {} |-> Undefined]}
        \cup {[code |-> c] : c \in Codes}
        \cup {[code |-> Rep(ch, n)] : ch \in {"1", "a", " ", "!"}, n \in 0..Schema_MaxCodeLen}

\* a form holds the candidate; nothing has been parsed yet
Schema_Init ==
    /\ isLoaded = FALSE
    /\ signUp = FALSE
    /\ state = "READY"
    /\ error = Null
    /\ isCreating = FALSE
    /\ isVerifying = FALSE
    /\ signupForm = [values |-> [k \in {} |-> Undefined], isValid |-> FALSE]
    /\ verifyForm = [values |-> [k \in {} |-> Undefined]]
    /\ inflight = EmptyBag
    /\ hookState = "idle"
    /\ err = Undefined
    /\ \/ \E x \in Schema_Passwords : result = [schema |-> "passwordSchema", input |-> x]
       \/ \E x \in Schema_SignupInputs : result = [schema |-> "formSchemaWithEmail", input |-> x]
       \/ \E x \in Schema_CodeInputs : result = [schema |-> "verificationSchema", input |-> x]

Schema_Parsed == "success" \in DOMAIN result

\* passwordSchema.safeParse(input).success
Schema_ParsePassword ==
    /\ result.schema = "passwordSchema"
    /\ ~Schema_Parsed
    /\ result' = [schema |-> result.schema, input |-> result.input,
                  success |-> passwordSchema(result.input)]
    /\ UNCHANGED <<isLoaded, signUp, state, error, isCreating, isVerifying, signupForm,
                   verifyForm, inflight, hookState, err>>

\* zodResolver(formSchemaWithEmail) on the values of the signup form
Schema_ParseSignup ==
    /\ result.schema = "formSchemaWithEmail"
    /\ ~Schema_Parsed
    /\ result' = [schema |-> result.schema, input |-> result.input,
                  success |-> formSchemaWithEmail(result.input)]
    /\ UNCHANGED <<isLoaded, signUp, state, error, isCreating, isVerifying, signupForm,
                   verifyForm, inflight, hookState, err>>

\* zodResolver(verificationSchema) on the values of the verification form
Schema_ParseCode ==
    /\ result.schema = "verificationSchema"
    /\ ~Schema_Parsed
    /\ result' = [schema |-> result.schema, input |-> result.input,
                  success |-> verificationSchema(result.input)]
    /\ UNCHANGED <<isLoaded, signUp, state, error, isCreating, isVerifying, signupForm,
                   verifyForm, inflight, hookState, err>>

Schema_Next ==
    \/ Schema_ParsePassword
    \/ Schema_ParseSignup
    \/ Schema_ParseCode

SchemaSpec == Schema_Init /\ [][Schema_Next]_vars

-----------------------------------------------------------------------------
(* Properties *)

\* the step resumes activation a (one copy of it leaves the bag)
Resumed(a) == CopiesIn(a, inflight') < CopiesIn(a, inflight)

\* the step makes signup or verify return from activation a: no call follows
Returned(a) == Resumed(a) /\ BagCardinality(inflight') < BagCardinality(inflight)

\* the Clerk calls the step issues
NewCalls ==
    {a \in BagToSet(inflight') :
        a.settled.kind = "pending" /\ CopiesIn(a, inflight') > CopiesIn(a, inflight)}

\* C1: a signup whose create call reported missing_requirements and whose prepare
\* call was fulfilled leaves the component in VERIFY_EMAIL; a signup whose create
\* call reported complete and whose setActive call was fulfilled leaves it in DONE.
C1_SignupOutcome ==
    [][\A a \in InFlight :
          (a.fn = "signup" /\ a.settled.kind = "fulfilled" /\ Returned(a) /\ state = "READY")
             => /\ (a.awaiting = "prepare" /\ a.result.status = "missing_requirements")
                      => state' = "VERIFY_EMAIL"
                /\ (a.awaiting = "setActive" /\ a.result.status = "complete")
                      => state' = "DONE"]_vars

\* C1 witness: signup has returned {success, requiresVerification: true} and the
\* component shows the verification form
C1_Witness ==
    /\ state = "VERIFY_EMAIL"
    /\ result = [success |-> TRUE, requiresVerification |-> TRUE]
    /\ inflight = EmptyBag

\* verify had `complete` from attemptEmailAddressVerification
AttemptReportedComplete(a) ==
    \/ a.awaiting = "attempt" /\ a.settled.kind = "fulfilled" /\ a.settled.status = "complete"
    \/ a.awaiting = "setActive" /\ a.result.status = "complete"

NonEmptyText(t) == t # Null /\ t # Undefined /\ t # ""

\* C2 as stated: when verify returns after attemptEmailAddressVerification reported
\* complete the component is in DONE, and when it returns after a rejected
\* attemptEmailAddressVerification it is in ERROR with a non-empty error text.
C2_AsStated ==
    [][\A a \in InFlight :
          (a.fn = "verify" /\ Returned(a))
             => /\ AttemptReportedComplete(a) => state' = "DONE"
                /\ (a.awaiting = "attempt" /\ a.settled.kind = "rejected")
                      => state' = "ERROR" /\ NonEmptyText(error')]_vars

\* C2 amended: when verify returns after attemptEmailAddressVerification reported
\* complete and setActive was fulfilled the component is in DONE; when it returns
\* after a rejection of either call it is in ERROR with a non-empty error text.
C2_VerifyOutcome ==
    [][\A a \in InFlight :
          (a.fn = "verify" /\ Returned(a))
             => /\ (a.awaiting = "setActive" /\ a.settled.kind = "fulfilled")
                      => state' = "DONE"
                /\ a.settled.kind = "rejected"
                      => state' = "ERROR" /\ NonEmptyText(error')]_vars

\* C2 witness: verify has returned {success: true} for a 6-character code
C2_Witness ==
    /\ state = "DONE"
    /\ result = [success |-> TRUE]
    /\ Len(verifyForm.values.code) = CodeLength

\* C3: every step that leaves ERROR, or changes the error text there, ends in READY
\* with the error text null and issues no Clerk call.
C3_Retry ==
    [][(state = "ERROR" /\ (state' # state \/ error' # error))
          => /\ state' = "READY"
             /\ error' = Null
             /\ inflight' = inflight
             /\ inflight = EmptyBag]_vars

\* C3 witness: READY again, error text cleared, after a failed verification
C3_Witness ==
    /\ state = "READY"
    /\ error = Null
    /\ result = [success |-> FALSE, error |-> "Verification failed"]

SignupsInFlight == {a \in InFlight : a.fn = "signup"}
VerifiesInFlight == {a \in InFlight : a.fn = "verify"}

\* C4: while isCreating is set the signup submit control is disabled, while
\* isVerifying is set the verification submit control is disabled, and no second
\* signup or verify call is in flight beside the first.
C4_FlagsDisableSubmit ==
    /\ isCreating => signupSubmitDisabled
    /\ isVerifying => verifySubmitDisabled
    /\ \A a \in InFlight : CopiesIn(a, inflight) = 1
    /\ Cardinality(SignupsInFlight) <= 1
    /\ Cardinality(VerifiesInFlight) <= 1

\* C4 witness: a valid signup form whose submit control is disabled only because
\* the signup is in flight
C4_Witness ==
    /\ View = "READY"
    /\ signupForm.isValid
    /\ isCreating
    /\ signupSubmitDisabled
    /\ NumInFlight = 1

\* C5: at most one Clerk call is in flight before and after every step, and the
\* component's state changes only in steps before which no call is unsettled.
C5_OneCallInFlight ==
    [][/\ NumInFlight <= 1
       /\ BagCardinality(inflight') <= 1
       /\ state' # state => \A a \in InFlight : a.settled.kind # "pending"]_vars

\* C5 witness: the second call of a signup (prepare) is the only call in flight
C5_Witness ==
    /\ NumInFlight = 1
    /\ \E a \in InFlight : a.awaiting = "prepare" /\ a.settled.kind = "pending"
    /\ state = "READY"

\* the schema the submitting form is declared with
SignupInputValid(data) ==
    IF "email" \in DOMAIN data THEN formSchemaWithEmail(data) ELSE formSchema(data)

\* C6: every create call in flight was made with a SignupInput the signup schema
\* accepts, and every attempt call with a code the verification schema accepts.
C6_OnlyValidInputSubmitted ==
    \A a \in InFlight :
        /\ a.awaiting = "create" => SignupInputValid(a.data)
        /\ a.awaiting = "attempt" => verificationSchema([code |-> a.code])

\* C7: while isLoaded is false or signUp is absent, a step neither issues a Clerk
\* call nor sets an in-flight flag, and what signup or verify returns is
\* {success: false, error: 'Clerk not loaded'}.
C7_NotLoadedNoOp ==
    [][(~isLoaded \/ ~signUp)
          => /\ inflight = EmptyBag
             /\ inflight' = EmptyBag
             /\ isCreating' = isCreating
             /\ isVerifying' = isVerifying
             /\ result' # result
                  => result' = [success |-> FALSE, error |-> "Clerk not loaded"]]_vars

\* C7 witness: signup or verify has been called while Clerk was not loaded
C7_Witness ==
    /\ ~isLoaded
    /\ result = [success |-> FALSE, error |-> "Clerk not loaded"]
    /\ inflight = EmptyBag
    /\ ~isCreating
    /\ ~isVerifying

\* C8: a fulfilled create call whose status is neither complete nor
\* missing_requirements ends the signup in ERROR with 'Unexpected signup status' and
\* no further call; a fulfilled attempt call whose status is not complete ends the
\* verification in ERROR with 'Verification failed' and no further call.
C8_UnexpectedStatus ==
    [][\A a \in InFlight :
          (Resumed(a) /\ a.settled.kind = "fulfilled")
             => /\ (a.awaiting = "create"
                      /\ a.settled.status \notin {"complete", "missing_requirements"})
                      => /\ state' = "ERROR"
                         /\ error' = "Unexpected signup status"
                         /\ NewCalls = {}
                /\ (a.awaiting = "attempt" /\ a.settled.status # "complete")
                      => /\ state' = "ERROR"
                         /\ error' = "Verification failed"
                         /\ NewCalls = {}]_vars

\* C8 witness: ERROR after a create call fulfilled with an unexpected status
C8_Witness ==
    /\ state = "ERROR"
    /\ error = "Unexpected signup status"
    /\ result = [success |-> FALSE, error |-> "Unexpected signup status"]

\* the first available of: the first entry's longMessage, err.message, the fallback
FirstAvailable(e, fallback) ==
    IF e.errors # <<>> /\ Head(e.errors) \notin {Undefined, ""}
    THEN Head(e.errors)
    ELSE IF e.message \notin {Undefined, ""} THEN e.message ELSE fallback

\* C9: when a rejected call is resumed the component goes to ERROR and the error
\* text is the first available of the first entry's longMessage, err.message and
\* the fallback ('Signup failed' for signup, 'Verification failed' for verify).
C9_ErrorTextOrder ==
    [][\A a \in InFlight :
          (Resumed(a) /\ a.settled.kind = "rejected")
             => /\ state' = "ERROR"
                /\ error' = FirstAvailable(a.settled.err,
                                IF a.fn = "signup" THEN "Signup failed"
                                                   ELSE "Verification failed")]_vars

\* C9 witness: ERROR showing err.message, the structured entry having offered nothing
C9_Witness ==
    /\ state = "ERROR"
    /\ error = Message

\* C10: a step issues at most one Clerk call; a create call is issued only from
\* READY and an attempt call only from VERIFY_EMAIL, with no call in flight and the
\* flag clear (by a user's submit, never by the continuation of an earlier call); no
\* step from or into ERROR issues a call, and none is in flight there.
C10_NoAutomaticRetry ==
    [][/\ Cardinality(NewCalls) <= 1
       /\ \A a \in NewCalls :
            /\ a.awaiting = "create"
                 => state = "READY" /\ ~isCreating /\ inflight = EmptyBag
            /\ a.awaiting = "attempt"
                 => state = "VERIFY_EMAIL" /\ ~isVerifying /\ inflight = EmptyBag
       /\ (state = "ERROR" \/ state' = "ERROR")
            => NewCalls = {} /\ inflight' = EmptyBag]_vars

\* C10 witness: after a failure and Try Again the user has submitted once more
C10_Witness ==
    /\ state = "READY"
    /\ isCreating
    /\ "success" \in DOMAIN result
    /\ ~result.success
    /\ \E a \in InFlight : a.awaiting = "create"

\* C11: in Signup, a signup from READY whose create and prepare calls were both
\* fulfilled, the signup still missing_requirements, leaves the component in
\* VERIFY_EMAIL; a verification from VERIFY_EMAIL whose attempt call reported
\* complete leaves it in DONE.
C11_ReadyVerifyDone ==
    [][\A a \in InFlight :
          (Returned(a) /\ a.settled.kind = "fulfilled")
             => /\ (a.fn = "signup" /\ a.awaiting = "prepare" /\ state = "READY"
                      /\ a.settled.status = "missing_requirements")
                      => state' = "VERIFY_EMAIL"
                /\ (a.fn = "verify" /\ state = "VERIFY_EMAIL"
                      /\ a.settled.status = "complete")
                      => state' = "DONE"]_vars

\* C12: in the signup view the submit control is disabled whenever the form's values
\* fail the schema or a signup is in flight; in the verification view it is disabled
\* whenever the code fails the schema or a verification is in flight.
C12_DisabledWhileInvalidOrInFlight ==
    /\ View = "READY"
         => ((~formSchemaWithEmail(signupForm.values) \/ SignupsInFlight # {})
                => signupSubmitDisabled)
    /\ View = "VERIFY_EMAIL"
         => ((~verificationSchema(verifyForm.values) \/ VerifiesInFlight # {})
                => verifySubmitDisabled)

\* C13: no step changes state once it is DONE; a step that leaves ERROR is the retry
\* (to READY, error text cleared, nothing in flight); every other change of state is
\* made by the return of signup or verify from a settled Clerk call.
C13_DoneTerminal ==
    [][/\ state = "DONE" => state' = "DONE"
       /\ (state = "ERROR" /\ state' # "ERROR")
            => state' = "READY" /\ error' = Null /\ inflight = EmptyBag
       /\ state' # state
            => \/ state = "ERROR" /\ state' = "READY"
               \/ \E a \in InFlight : Returned(a) /\ a.settled.kind # "pending"]_vars

\* C13 witness: DONE reached by a signup that Clerk reported complete
C13_Witness ==
    /\ state = "DONE"
    /\ result = [success |-> TRUE, requiresVerification |-> FALSE]
    /\ inflight = EmptyBag

\* the flag and the control of the function an activation belongs to
FlagOf(a) == IF a.fn = "signup" THEN isCreating ELSE isVerifying
ControlDisabledFor(a) == IF a.fn = "signup" THEN signupSubmitDisabled ELSE verifySubmitDisabled

\* C14: while a Clerk call is unsettled its flag is set and its submit control is
\* disabled; a step that does not settle the call leaves the call in flight, the flag
\* set, the control disabled and state unchanged (nothing times out or cancels).
C14_UnsettledCallKeepsFlag ==
    [][\A a \in InFlight :
          a.settled.kind = "pending"
             => /\ FlagOf(a)
                /\ ControlDisabledFor(a)
                /\ BagCardinality(inflight') >= BagCardinality(inflight)
                /\ state' = state
                /\ FlagOf(a)'
                /\ ControlDisabledFor(a)']_vars

\* C14 witness: a verification still unsettled after the user has retyped the code
C14_Witness ==
    /\ isVerifying
    /\ verifySubmitDisabled
    /\ state = "VERIFY_EMAIL"
    /\ \E a \in InFlight :
         /\ a.awaiting = "attempt"
         /\ a.settled.kind = "pending"
         /\ verifyForm.values.code # a.code

\* the password policy: 8 to 12 characters, with a lowercase letter, an uppercase
\* letter, a digit and a character of the special class
HasLower(p) == \E i \in 1..Len(p) : p[i] \in Lowercase
HasUpper(p) == \E i \in 1..Len(p) : p[i] \in Uppercase
HasDigit(p) == \E i \in 1..Len(p) : p[i] \in Number
HasSpecial(p) == \E i \in 1..Len(p) : p[i] \in Special
PasswordPolicy(p) ==
    /\ Len(p) >= 8
    /\ Len(p) <= 12
    /\ HasLower(p) /\ HasUpper(p) /\ HasDigit(p) /\ HasSpecial(p)

\* C15: the signup schema accepts an input exactly when the e-mail is well-formed,
\* the username has at least 4 characters, the password meets the policy,
\* confirmPassword equals password and tos is true; so tos false is rejected, and a
\* confirmPassword that differs from password is rejected.
C15_SignupSchema ==
    (result.schema = "formSchemaWithEmail" /\ Schema_Parsed)
       => LET d == result.input
          IN  /\ result.success
                    = (/\ emailSchema(d.email)
                       /\ Len(d.username) >= 4
                       /\ PasswordPolicy(d.password)
                       /\ d.confirmPassword = d.password
                       /\ d.tos = TRUE)
              /\ d.tos = FALSE => ~result.success
              /\ d.confirmPassword # d.password => ~result.success

\* C15 witness: rejected only because two passwords that each meet the policy differ
C15_Witness ==
    /\ result.schema = "formSchemaWithEmail"
    /\ Schema_Parsed
    /\ ~result.success
    /\ emailSchema(result.input.email)
    /\ Len(result.input.username) >= 4
    /\ PasswordPolicy(result.input.password)
    /\ PasswordPolicy(result.input.confirmPassword)
    /\ result.input.confirmPassword # result.input.password
    /\ result.input.tos

\* C16: the password schema accepts every password of 8 to 12 characters that has
\* all four classes, and rejects every password that lacks a class, is shorter than 8
\* or longer than 12.
C16_PasswordSchema ==
    (result.schema = "passwordSchema" /\ Schema_Parsed)
       => LET p == result.input
          IN  /\ (Len(p) >= 8 /\ Len(p) <= 12
                    /\ HasLower(p) /\ HasUpper(p) /\ HasDigit(p) /\ HasSpecial(p))
                    => result.success
              /\ (~HasLower(p) \/ ~HasUpper(p) \/ ~HasDigit(p) \/ ~HasSpecial(p)
                    \/ Len(p) < 8 \/ Len(p) > 12)
                    => ~result.success

\* C16 witness: a password of 13 characters with all four classes has been rejected
C16_Witness ==
    /\ result.schema = "passwordSchema"
    /\ Schema_Parsed
    /\ ~result.success
    /\ Len(result.input) = 13
    /\ HasLower(result.input) /\ HasUpper(result.input)
    /\ HasDigit(result.input) /\ HasSpecial(result.input)

\* C17: the verification schema accepts a code exactly when it has 6 characters,
\* whatever they are; an untouched input is rejected.
C17_VerificationSchema ==
    (result.schema = "verificationSchema" /\ Schema_Parsed)
       => IF "code" \in DOMAIN result.input
          THEN result.success = (Len(result.input.code) = 6)
          ELSE ~result.success

\* C17 witness: six characters that are not digits have been accepted
C17_Witness ==
    /\ result.schema = "verificationSchema"
    /\ Schema_Parsed
    /\ result.success
    /\ \A i \in 1..Len(result.input.code) : result.input.code[i] \notin Number

\* C18: a step issues a prepare call exactly when it resumes signup after a create
\* call fulfilled with missing_requirements; the component enters VERIFY_EMAIL only
\* from READY, by the return of a signup whose prepare call was fulfilled, and leaves
\* it only for DONE or ERROR; a rejected prepare call yields ERROR; an attempt call is
\* issued only in VERIFY_EMAIL, where the last return of the hook is that signup's.
C18_PrepareBeforeVerify ==
    [][/\ \A n \in NewCalls :
            n.awaiting = "prepare"
               => \E a \in InFlight :
                      /\ Resumed(a)
                      /\ a.fn = "signup" /\ a.awaiting = "create"
                      /\ a.settled.kind = "fulfilled"
                      /\ a.settled.status = "missing_requirements"
       /\ \A a \in InFlight :
            (Resumed(a) /\ a.awaiting = "create" /\ a.settled.kind = "fulfilled"
                /\ a.settled.status = "missing_requirements")
               => \E n \in NewCalls : n.awaiting = "prepare" /\ n.data = a.data
       /\ (state # "VERIFY_EMAIL" /\ state' = "VERIFY_EMAIL")
            => /\ state = "READY"
               /\ \E a \in InFlight :
                      Returned(a) /\ a.awaiting = "prepare" /\ a.settled.kind = "fulfilled"
       /\ (state = "VERIFY_EMAIL" /\ state' # "VERIFY_EMAIL") => state' \in {"DONE", "ERROR"}
       /\ \A a \in InFlight :
            (Returned(a) /\ a.awaiting = "prepare" /\ a.settled.kind = "rejected")
               => state' = "ERROR"
       /\ \A n \in NewCalls :
            n.awaiting = "attempt"
               => /\ state = "VERIFY_EMAIL"
                  /\ result = [success |-> TRUE, requiresVerification |-> TRUE]]_vars

\* C18 witness: after a fulfilled prepare call an attempt call is in flight
C18_Witness ==
    /\ state = "VERIFY_EMAIL"
    /\ result = [success |-> TRUE, requiresVerification |-> TRUE]
    /\ \E a \in InFlight : a.awaiting = "attempt" /\ a.settled.kind = "pending"

\* C19: the component enters DONE only by the return of a call whose setActive call,
\* made with the createdSessionId of the response that reported complete, was
\* fulfilled; a setActive call is issued only by resuming after a create or attempt
\* call fulfilled with complete, with that response's createdSessionId; a rejected
\* setActive call yields ERROR.
C19_DoneAfterSetActive ==
    [][/\ (state # "DONE" /\ state' = "DONE")
            => \E a \in InFlight :
                   /\ Returned(a)
                   /\ a.awaiting = "setActive"
                   /\ a.settled.kind = "fulfilled"
                   /\ a.result.status = "complete"
                   /\ a.session = a.result.createdSessionId
       /\ \A n \in NewCalls :
            n.awaiting = "setActive"
               => \E a \in InFlight :
                      /\ Resumed(a)
                      /\ a.awaiting \in {"create", "attempt"}
                      /\ a.settled.kind = "fulfilled"
                      /\ a.settled.status = "complete"
                      /\ n.session = a.settled.createdSessionId
       /\ \A a \in InFlight :
            (Returned(a) /\ a.awaiting = "setActive" /\ a.settled.kind = "rejected")
               => state' = "ERROR" /\ error' # Null]_vars

\* C19 witness: a setActive call with the second session id is in flight for a
\* verification
C19_Witness ==
    \E a \in InFlight :
        /\ a.fn = "verify"
        /\ a.awaiting = "setActive"
        /\ a.session = "sess_2"
        /\ a.settled.kind = "fulfilled"

\* C20: whenever no activation of signup or verify is in flight (none awaits a Clerk
\* call), isCreating and isVerifying are both false; they are never both true; and
\* the step by which signup or verify returns clears the flag that call set.
C20_FlagsCleared ==
    [][/\ inflight' = EmptyBag => ~isCreating' /\ ~isVerifying'
       /\ ~(isCreating' /\ isVerifying')
       /\ \A a \in InFlight :
            (Returned(a) /\ a.settled.kind # "pending") => ~FlagOf(a)']_vars

\* C20 witness: signup has returned after a rejected call, the flag is clear
C20_Witness ==
    /\ state = "ERROR"
    /\ error = "Signup failed"
    /\ inflight = EmptyBag
    /\ ~isCreating
    /\ ~isVerifying

\* C21: when every Clerk call settles, a signup in flight leads to VERIFY_EMAIL, DONE
\* or ERROR with isCreating false and no signup in flight, and a verification in
\* flight leads to DONE or ERROR with isVerifying false and no verification in flight.
C21_SubmitTerminates ==
    /\ (SignupsInFlight # {})
          ~> (/\ state \in {"VERIFY_EMAIL", "DONE", "ERROR"}
              /\ ~isCreating
              /\ SignupsInFlight = {})
    /\ (VerifiesInFlight # {})
          ~> (/\ state \in {"DONE", "ERROR"}
              /\ ~isVerifying
              /\ VerifiesInFlight = {})

\* C21 witness: a verification one of whose Clerk calls was rejected has ended in ERROR
C21_Witness ==
    /\ state = "ERROR"
    /\ ~isVerifying
    /\ inflight = EmptyBag
    /\ "code" \in DOMAIN verifyForm.values
    /\ result = [success |-> FALSE, error |-> LongMessage1]

\* C22: the error text is a non-empty string exactly when state is ERROR, and null
\* in READY, VERIFY_EMAIL and DONE.
C22_ErrorAgreesWithState ==
    /\ state = "ERROR" <=> error \notin {Null, Undefined, ""}
    /\ state \in {"READY", "VERIFY_EMAIL", "DONE"} => error = Null

\* C22 witness: after a failure and Try Again, a second signup has reached
\* VERIFY_EMAIL with the error text null
C22_Witness ==
    /\ state = "VERIFY_EMAIL"
    /\ error = Null
    /\ inflight = EmptyBag
    /\ signupForm.values.email # DefaultEmail

====
